---- MODULE Spec2Model ----
(***************************************************************************)
(* Egocentric-to-global map maintenance of BaselineNetNonOracle            *)
(* (habitat_baselines/rl/ppo/policy.py): the persistent buffer            *)
(* full_global_map, the forward pass that masks, fuses and retrieves, and  *)
(* the three entry points of PolicyNonOracle that call it.                 *)
(*                                                                         *)
(* A tensor without its batch axis is a record [shape, at]: shape is the   *)
(* triple of its three remaining axis lengths, at maps the index triples   *)
(* (0-based) of its NON-ZERO entries to their values; every other entry is *)
(* zero.  Two tensors are equal iff the records are equal.  The batch axis *)
(* is a function from slot numbers 0..bs-1 to such tensors.                *)
(* Values are integers standing for the floats of the code; headings are   *)
(* counted in quarter turns, for which the resampling of grid_sample is    *)
(* exact on an odd-sized grid.                                             *)
(***************************************************************************)
EXTENDS Integers, Sequences, FiniteSets, TLC

\* ------------------------------------------------------------------------
\* Program constants and constructor arguments
\* ------------------------------------------------------------------------

\* the literal 18 the forward pass compares the active batch size with
HardcodedBatch == 18

\* the literal 51: side of the retrieval window and of the evaluation canvas
RetrievalSize == 51

\* constructor arguments of BaselineNetNonOracle
batch_size == 19

global_map_size == 51

global_map_depth == 1

egocentric_map_size == 2

\* the world bounds handed to to_grid
coordinate_min == -20

coordinate_max == 20

\* number of forward calls explored
MaxCalls == 2

\* batch size of the calls of evaluate_actions
EvalBatch == 2

Slots == 0 .. (batch_size - 1)

Max2(a, b) == IF a >= b THEN a ELSE b

Min2(a, b) == IF a <= b THEN a ELSE b

\* math.floor(n / 2) and math.ceil(n / 2) for an integer n
FloorHalf(n) == n \div 2

CeilHalf(n) == (n + 1) \div 2

\* ------------------------------------------------------------------------
\* Tensors
\* ------------------------------------------------------------------------

\* the tensor of the given shape whose entry at i is f[i] for i in DOMAIN f, 0
\* elsewhere
\* the function f, with its values computed once
Eager(f) == f @@ f

Tensor(dims, f) ==
    LET g == Eager(f)
    IN  [shape |-> dims, at |-> Eager([i \in {j \in DOMAIN g : g[j] # 0} |-> g[i]])]

Get(t, i) == IF i \in DOMAIN t.at THEN t.at[i] ELSE 0

InShape(dims, i) == \A k \in 1 .. 3 : i[k] \in 0 .. (dims[k] - 1)

\* torch.zeros(shape) / FloatTensor(shape).fill_(0)
Zeros(dims) == Tensor(dims, [i \in {} |-> 0])

\* t * m for a per-slot scalar m (masks.unsqueeze(1).unsqueeze(1) broadcast)
MulScalar(t, m) == Tensor(t.shape, [i \in DOMAIN t.at |-> t.at[i] * m])

\* (mutant) the sum where the maximum belongs
TorchSum(a, b) ==
    Tensor(a.shape, [i \in DOMAIN a.at \cup DOMAIN b.at |-> Get(a, i) + Get(b, i)])

\* torch.max(a, b), element-wise
TorchMax(a, b) ==
    Tensor(a.shape, [i \in DOMAIN a.at \cup DOMAIN b.at |-> Max2(Get(a, i), Get(b, i))])

\* t.permute(0, p[1], p[2], p[3]) on the three non-batch axes: output axis k is
\* input axis p[k]
PermuteIdx(i, p) == <<i[p[1]], i[p[2]], i[p[3]]>>

Permute(t, p) ==
    LET src(o) == CHOOSE i \in DOMAIN t.at : PermuteIdx(i, p) = o
    IN  [shape |-> PermuteIdx(t.shape, p),
         at |-> Eager([o \in {PermuteIdx(i, p) : i \in DOMAIN t.at} |-> t.at[src(o)]])]

\* the index range a Python slice start:stop selects on an axis of length n
SliceBound(k, n) == IF k < 0 THEN Max2(k + n, 0) ELSE Min2(k, n)

SliceRange(start, stop, n) == SliceBound(start, n) .. (SliceBound(stop, n) - 1)

\* ------------------------------------------------------------------------
\* Geometry: canvas placement, get_grid / grid_sample, cropping
\* ------------------------------------------------------------------------

\* the rows (and columns) n // 2 - floor(e / 2) : n // 2 + ceil(e / 2) that a
\* patch of side e is pasted on, on a canvas of side n
PasteRange(n, e) == SliceRange(n \div 2 - FloorHalf(e), n \div 2 + CeilHalf(e), n)

\* (mutant) floor and ceil exchanged
PasteLoOfCeil(n, e) == SliceBound(n \div 2 - CeilHalf(e), n)

PasteLoOf(n, e) == SliceBound(n \div 2 - FloorHalf(e), n)

\* canvas[:, :, lo:hi, lo:hi] = patch on a zero canvas of side n (channel first),
\* for a patch of side e
AgentViewOf(n, e, projection) ==
    LET lo == PasteLoOf(n, e)
    IN  Tensor(<<global_map_depth, n, n>>,
               [o \in {<<i[1], i[2] + lo, i[3] + lo>> : i \in DOMAIN projection.at} |->
                   projection.at[<<o[1], o[2] - lo, o[3] - lo>>]])

\* the same for the patch size the network was built with
PasteLo(n) == PasteLoOf(n, egocentric_map_size)

AgentView(n, projection) == AgentViewOf(n, egocentric_map_size, projection)

\* where a quarter turn of the sampling grid sends the entry at index i of a
\* [depth, n, n] tensor: output[r][c] = input[c][n - 1 - r]
RotIdx(i, n, q) ==
    CASE q % 4 = 0 -> i
      [] q % 4 = 1 -> <<i[1], n - 1 - i[3], i[2]>>
      [] q % 4 = 2 -> <<i[1], n - 1 - i[2], n - 1 - i[3]>>
      [] q % 4 = 3 -> <<i[1], i[3], n - 1 - i[2]>>

\* an offset num / (global_map_size // 2) of the normalised sampling grid, in
\* cells of an n-sided tensor (corner-aligned grid: n - 1 cells span [-1, 1])
PixelShift(num, n) == (num * (n - 1)) \div (2 * (global_map_size \div 2))

\* get_grid(pose, size): the rotation grid and the translation grid of a pose
\* <<x, y, heading>>, x and y numerators over global_map_size // 2
get_grid(pose, n) ==
    [rot   |-> [q |-> pose[3] % 4, dx |-> 0, dy |-> 0],
     trans |-> [q |-> 0, dx |-> PixelShift(pose[1], n), dy |-> PixelShift(pose[2], n)]]

\* F.grid_sample(t, grid) with zero padding: output[r][c] is the input at the
\* grid's source cell, so the entry at (r, c) moves to (r - dy, c - dx)
grid_sample(t, grid) ==
    LET n == t.shape[2]
        img(i) == RotIdx(<<i[1], i[2] - grid.dy, i[3] - grid.dx>>, n, grid.q)
        kept == {i \in DOMAIN t.at : InShape(t.shape, img(i))}
        src(o) == CHOOSE i \in kept : img(i) = o
    IN  Tensor(t.shape, [o \in {img(i) : i \in kept} |-> t.at[src(o)]])

\* t[:, :, lo:hi, lo:hi]
Crop(t, lo, hi) ==
    LET rows == SliceRange(lo, hi, t.shape[2])
        cols == SliceRange(lo, hi, t.shape[3])
        r0 == SliceBound(lo, t.shape[2])
        c0 == SliceBound(lo, t.shape[3])
        kept == {i \in DOMAIN t.at : i[2] \in rows /\ i[3] \in cols}
    IN  Tensor(<<t.shape[1], Cardinality(rows), Cardinality(cols)>>,
               [o \in {<<i[1], i[2] - r0, i[3] - c0>> : i \in kept} |->
                   t.at[<<o[1], o[2] + r0, o[3] + c0>>]])

\* RotateTensor.forward(x, heading): the window turned back by the heading
RotateTensor(x, heading) ==
    grid_sample(x, [q |-> (4 - (heading % 4)) % 4, dx |-> 0, dy |-> 0])

\* translated_retrieval[:, :, G // 2 - floor(51 / 2) : G // 2 + ceil(51 / 2), the same]
\* for a map of side G
RetrievalCrop(t, G) ==
    Crop(t, G \div 2 - FloorHalf(RetrievalSize), G \div 2 + CeilHalf(RetrievalSize))

\* (mutant) the centre cell taken at the far end of the axis
st_poseOfFullSize(G, o) ==
    <<-(o.grid_y - G), -(o.grid_x - G), o.compass>>

\* the placement pose of a network built with global_map_size G, its offsets as
\* numerators over G // 2
st_poseOf(G, o) ==
    <<-(o.grid_y - (G \div 2)), -(o.grid_x - (G \div 2)), o.compass>>

\* the retrieval pose of the same network
st_pose_retrievalOf(G, o) ==
    <<o.grid_y - (G \div 2), o.grid_x - (G \div 2), 0>>

\* ------------------------------------------------------------------------
\* Coordinate mapper
\* ------------------------------------------------------------------------

\* a world position is an integer counting 1 / Resolution of a world unit
Resolution == 51

\* to_grid(size, lo, hi): the cell of world position p on an axis of size cells
\* that spans [lo, hi) linearly, with no clamping:
\* floor((p - lo) * size / (hi - lo))
to_grid(size, lo, hi, p) ==
    ((p - lo * Resolution) * size) \div ((hi - lo) * Resolution)

\* (mutant) the mapper built with the size of the egocentric patch
get_grid_coordsOfPatchSize(gps) ==
    [grid_x |-> to_grid(egocentric_map_size, coordinate_min, coordinate_max, gps[1]),
     grid_y |-> to_grid(egocentric_map_size, coordinate_min, coordinate_max, gps[2])]

\* self.to_grid = to_grid(global_map_size, coordinate_min, coordinate_max);
\* grid_x, grid_y = self.to_grid.get_grid_coords(observations["gps"])
get_grid_coords(gps) ==
    [grid_x |-> to_grid(global_map_size, coordinate_min, coordinate_max, gps[1]),
     grid_y |-> to_grid(global_map_size, coordinate_min, coordinate_max, gps[2])]

\* ------------------------------------------------------------------------
\* Inputs of a forward call
\* ------------------------------------------------------------------------

\* a [depth, E, E] patch (E = 2) given by its four values of depth 0, row by row
PatchFrom(vals) ==
    Tensor(<<global_map_depth, egocentric_map_size, egocentric_map_size>>,
           [i \in {<<0, r, c>> : r \in 0 .. (egocentric_map_size - 1),
                                 c \in 0 .. (egocentric_map_size - 1)} |->
               vals[i[2] * egocentric_map_size + i[3] + 1]])

\* what one environment hands to a step: the grid coordinates to_grid gives for
\* its gps reading, its compass reading (quarter turns) and the egocentric
\* projection of its depth image
ObsA ==
    [grid_x |-> 25, grid_y |-> 25, compass |-> 0, projection |-> PatchFrom(<<1, 0, 0, -1>>)]

ObsB ==
    [grid_x |-> 25, grid_y |-> 25, compass |-> 0, projection |-> PatchFrom(<<0, 2, 0, -2>>)]

ObsC ==
    [grid_x |-> 0, grid_y |-> 50, compass |-> 1, projection |-> PatchFrom(<<-1, 2, 0, 0>>)]

Observations == {ObsA, ObsB, ObsC}

\* the observations of one step: <<those of the even slots, those of the odd slots>>
ObservationBatches == {<<ObsA, ObsB>>, <<ObsB, ObsC>>, <<ObsC, ObsA>>}

Masks == {0, 1}

\* the global_map argument of evaluate_actions: maps stored from earlier steps
StoredMaps ==
    { Zeros(<<RetrievalSize, RetrievalSize, global_map_depth>>),
      Tensor(<<RetrievalSize, RetrievalSize, global_map_depth>>,
             [i \in {<<25, 25, 0>>, <<24, 25, 0>>, <<3, 7, 0>>} |->
                 IF i = <<25, 25, 0>> THEN 2 ELSE 1]) }

\* what one environment hands to a step, from its raw gps reading
Observe(gps, compass, projection) ==
    [grid_x |-> get_grid_coords(gps).grid_x, grid_y |-> get_grid_coords(gps).grid_y,
     compass |-> compass, projection |-> projection, gps |-> gps]

\* gps readings on one axis: beyond, at and within the world bounds
GpsReadings ==
    { coordinate_min * Resolution - 2 * Resolution, coordinate_min * Resolution - 1,
      coordinate_min * Resolution, coordinate_min * Resolution + Resolution,
      -Resolution, 0, Resolution,
      coordinate_max * Resolution - Resolution, coordinate_max * Resolution - 1,
      coordinate_max * Resolution, coordinate_max * Resolution + 2 * Resolution }

\* compass readings in quarter turns, some a full turn apart
Headings == {-3, 0, 1, 4, 5}

Projections == {PatchFrom(<<1, 0, 0, -1>>), PatchFrom(<<3, 2, 0, 1>>)}

\* active batch sizes of the training-mode calls
ActiveSizes == {1, HardcodedBatch, batch_size}

\* per-slot inputs: even slots share one choice, odd slots another
PerSlot(bs, even, odd) ==
    Eager([j \in 0 .. (bs - 1) |-> IF j % 2 = 0 THEN even ELSE odd])

NoMaps == [j \in {} |-> Zeros(<<0, 0, 0>>)]

\* ------------------------------------------------------------------------
\* State
\* ------------------------------------------------------------------------

VARIABLES
    full_global_map,  \* the persistent buffer: slot -> [G, G, depth] tensor
    config,           \* what the constructor was given
    call,             \* the arguments of the latest call of the network
    result,           \* how that call ended and the map it returned
    ncalls,           \* number of calls made
    since_reset       \* per slot: how many warped canvases were fused since the
                      \* slot was last zeroed, and their element-wise maximum
                      \* (history, not program state)

VARIABLES
    _instances,       \* Singleton._instances: class -> the instance kept for it
    constructor_calls \* the calls made on classes using Singleton, in order, each
                      \* with how it ended (history, not program state)

vars == <<full_global_map, config, call, result, ncalls, since_reset,
          _instances, constructor_calls>>

\* Singleton._instances = {}
NoInstances == [k \in {} |-> k]

MapShape == <<global_map_size, global_map_size, global_map_depth>>

\* ------------------------------------------------------------------------
\* BaselineNetNonOracle.forward
\* ------------------------------------------------------------------------

\* (mutant) the mask of slot 0 applied to every active slot
MaskedMapSharedMask(fgm, bs, masks) ==
    Eager([j \in DOMAIN fgm |-> IF j < bs THEN MulScalar(fgm[j], masks[0]) ELSE fgm[j]])

\* (mutant) no slot is reset
MaskedMapKeepsAll(fgm, bs, masks) == fgm

\* full_global_map[:bs] = full_global_map[:bs] * masks.unsqueeze(1).unsqueeze(1)
MaskedMap(fgm, bs, masks) ==
    Eager([j \in DOMAIN fgm |-> IF j < bs THEN MulScalar(fgm[j], masks[j]) ELSE fgm[j]])

\* (mutant) the buffer cut down to the active slots
TailDropped(fgm, bs) ==
    Eager([j \in {k \in DOMAIN fgm : bs = HardcodedBatch \/ k < bs} |-> fgm[j]])

\* if bs != 18: full_global_map[bs:] = full_global_map[bs:] * 0
TailZeroed(fgm, bs) ==
    Eager([j \in DOMAIN fgm |->
        IF bs # HardcodedBatch /\ j >= bs THEN MulScalar(fgm[j], 0) ELSE fgm[j]])

\* (mutant) the placement pose with its offsets clamped to [-1, 1]
st_poseClamped(o) ==
    <<Max2(-(global_map_size \div 2),
           Min2(global_map_size \div 2, -(o.grid_y - (global_map_size \div 2)))),
      Max2(-(global_map_size \div 2),
           Min2(global_map_size \div 2, -(o.grid_x - (global_map_size \div 2)))),
      o.compass>>

\* the placement pose, offsets as numerators over global_map_size // 2
st_pose(o) == st_poseOf(global_map_size, o)

\* the egocentric patch pasted on the canvas, rotated, then translated
Translated(o) ==
    LET agent_view == AgentView(global_map_size, o.projection)
        grids == get_grid(st_pose(o), global_map_size)
        rotated == grid_sample(agent_view, grids.rot)
    IN  grid_sample(rotated, grids.trans)

\* (mutant) the warped canvas overwrites the slot
FusedOverwrite(fgm, bs, obs) ==
    Eager([j \in DOMAIN fgm |->
        IF j < bs THEN Permute(Translated(obs[j]), <<2, 3, 1>>) ELSE fgm[j]])

\* (mutant) the warped canvas is added to the slot
FusedAdds(fgm, bs, obs) ==
    Eager([j \in DOMAIN fgm |->
        IF j < bs THEN TorchSum(fgm[j], Permute(Translated(obs[j]), <<2, 3, 1>>))
        ELSE fgm[j]])

\* full_global_map[:bs] = torch.max(full_global_map[:bs], translated.permute(0, 2, 3, 1))
\* (each distinct observation of the batch is warped once)
Fused(fgm, bs, obs) ==
    LET translated == Eager([o \in {obs[j] : j \in 0 .. (bs - 1)} |-> Translated(o)])
    IN  Eager([j \in DOMAIN fgm |->
            IF j < bs THEN TorchMax(fgm[j], Permute(translated[obs[j]], <<2, 3, 1>>))
            ELSE fgm[j]])

\* (mutant) the retrieval pose with the offsets of the placement pose
st_pose_retrievalAsPlaced(o) ==
    <<-(o.grid_y - (global_map_size \div 2)),
      -(o.grid_x - (global_map_size \div 2)),
      0>>

\* the retrieval pose: offsets negated, heading zero
st_pose_retrieval(o) == st_pose_retrievalOf(global_map_size, o)

\* (mutant) the window turned by a heading capped to the first turn
FinalRetrievalHeadingCapped(slot, o) ==
    LET grids == get_grid(st_pose_retrieval(o), global_map_size)
        translated_retrieval ==
            RetrievalCrop(grid_sample(Permute(slot, <<3, 1, 2>>), grids.trans),
                          global_map_size)
    IN  RotateTensor(translated_retrieval, Min2(Max2(o.compass, 0), 3))

\* the window read back from one slot of the buffer, channel first
FinalRetrieval(slot, o) ==
    LET grids == get_grid(st_pose_retrieval(o), global_map_size)
        translated_retrieval ==
            RetrievalCrop(grid_sample(Permute(slot, <<3, 1, 2>>), grids.trans),
                          global_map_size)
    IN  RotateTensor(translated_retrieval, o.compass)

\* the evaluation branch: torch.max(global_map * mask, agent_view.permute(0, 2, 3, 1))
EvalRetrieval(gm, mask, o) ==
    TorchMax(MulScalar(gm, mask),
             Permute(AgentView(RetrievalSize, o.projection), <<2, 3, 1>>))

\* some auxiliary head exists
AnyAuxHead(cfg) == cfg.fc_seen \/ cfg.fc_direction \/ cfg.fc_distance

Raised(fgm) == [status |-> "raised", full_global_map |-> fgm, global_map |-> NoMaps]

\* (mutant) the window is read before the step's canvas is fused
ForwardTrainReadsBeforeFusion(cfg, fgm, c) ==
    LET masked == MaskedMap(fgm, c.bs, c.masks)
        tailed == TailZeroed(masked, c.bs)
        fused  == Fused(tailed, c.bs, c.obs)
    IN  [status |-> IF cfg.use_previous_action THEN "returned" ELSE "raised",
         full_global_map |-> fused,
         global_map |-> Eager([j \in 0 .. (c.bs - 1) |->
                            Permute(FinalRetrieval(tailed[j], c.obs[j]), <<2, 3, 1>>)])]

\* the training-mode branch (ev == 0)
ForwardTrain(cfg, fgm, c) ==
    LET masked == MaskedMap(fgm, c.bs, c.masks)
        tailed == TailZeroed(masked, c.bs)
        fused  == Fused(tailed, c.bs, c.obs)
        \* the window of each distinct (slot content, observation) pair, read once
        final_retrieval ==
            Eager([p \in {<<fused[j], c.obs[j]>> : j \in 0 .. (c.bs - 1)} |->
                Permute(FinalRetrieval(p[1], p[2]), <<2, 3, 1>>)])
    IN  IF ~cfg.use_previous_action
        THEN Raised(fused)   \* action_embedding is read unassigned, after the fusion
        ELSE [status |-> "returned",
              full_global_map |-> fused,
              global_map |-> Eager([j \in 0 .. (c.bs - 1) |->
                                 final_retrieval[<<fused[j], c.obs[j]>>]])]

\* the evaluation branch (ev != 0)
ForwardEval(cfg, fgm, c) ==
    LET final_retrieval ==
            [j \in 0 .. (c.bs - 1) |-> EvalRetrieval(c.global_map[j], c.masks[j], c.obs[j])]
    IN  IF ~cfg.cuda THEN Raised(fgm)   \* torch.cuda.device(0) without an accelerator
        ELSE IF ~cfg.use_previous_action THEN Raised(fgm)
        ELSE IF c.aux_loss /\ AnyAuxHead(cfg) /\ ~cfg.fc_seen
        THEN Raised(fgm)                \* (seen_labels == 1).nonzero() on None
        ELSE [status |-> "returned",
              full_global_map |-> fgm,
              global_map |-> Eager([j \in 0 .. (c.bs - 1) |->
                                 Permute(final_retrieval[j], <<2, 3, 1>>)])]

forward(cfg, fgm, c) ==
    IF cfg.is_blind THEN Raised(fgm)    \* perception_embed is read unassigned
    ELSE IF c.ev = 0 THEN ForwardTrain(cfg, fgm, c)
    ELSE ForwardEval(cfg, fgm, c)

\* ------------------------------------------------------------------------
\* History kept for the properties
\* ------------------------------------------------------------------------

NothingFused == [n |-> 0, max |-> Zeros(MapShape)]

\* the warped canvas a training-mode step offers for observation o, laid out as
\* the buffer
Contribution(o) == Permute(Translated(o), <<2, 3, 1>>)

\* since_reset after call c: a mask of 0 or the zeroing of the tail starts a
\* slot afresh, a fusion adds its canvas to the running maximum (the maximum
\* of the canvases alone: the buffer's own zero is no part of it)
Remember(hist, cfg, c) ==
    IF cfg.is_blind \/ c.ev # 0 THEN hist
    ELSE LET offered == Eager([o \in {c.obs[j] : j \in 0 .. (c.bs - 1)} |-> Contribution(o)])
         IN  Eager([j \in DOMAIN hist |->
                IF j < c.bs
                THEN IF c.masks[j] = 0 \/ hist[j].n = 0
                     THEN [n |-> 1, max |-> offered[c.obs[j]]]
                     ELSE [n |-> hist[j].n + 1,
                           max |-> TorchMax(hist[j].max, offered[c.obs[j]])]
                ELSE IF c.bs # HardcodedBatch THEN NothingFused
                ELSE hist[j]])

\* ------------------------------------------------------------------------
\* Construction and the entry points
\* ------------------------------------------------------------------------

\* the configuration the policy is trained with
TrainingConfig ==
    [use_previous_action |-> TRUE, is_blind |-> FALSE, cuda |-> TRUE,
     fc_seen |-> TRUE, fc_direction |-> TRUE, fc_distance |-> TRUE]

\* every configuration the constructor accepts
AllConfigs ==
    [use_previous_action : BOOLEAN, is_blind : BOOLEAN, cuda : BOOLEAN,
     fc_seen : BOOLEAN, fc_direction : BOOLEAN, fc_distance : BOOLEAN]

NoCall ==
    [op |-> "none", ev |-> 0, aux_loss |-> FALSE, bs |-> 0,
     masks |-> PerSlot(0, 0, 0), obs |-> PerSlot(0, 0, 0), global_map |-> NoMaps]

\* BaselineNetNonOracle.__init__: full_global_map = torch.zeros(batch_size, G, G, depth)
Construct(cfgs) ==
    /\ full_global_map = [j \in Slots |-> Zeros(MapShape)]
    /\ config \in cfgs
    /\ call = NoCall
    /\ result = [status |-> "none", global_map |-> NoMaps]
    /\ ncalls = 0
    /\ since_reset = [j \in Slots |-> NothingFused]
    /\ _instances = NoInstances
    /\ constructor_calls = <<>>

Init == Construct({TrainingConfig})

\* (mutant) the pose of the call before is kept on the instance and used again
NetCallKeepsPose(c) ==
    /\ ncalls < MaxCalls
    /\ call' = c
    /\ LET kept == IF call.bs >= c.bs
                   THEN [c EXCEPT !.obs =
                            Eager([j \in DOMAIN c.obs |->
                                [c.obs[j] EXCEPT !.grid_x = call.obs[j].grid_x,
                                                 !.grid_y = call.obs[j].grid_y,
                                                 !.compass = call.obs[j].compass]])]
                   ELSE c
       IN  \E r \in {forward(config, full_global_map, kept)} :
               /\ full_global_map' = r.full_global_map
               /\ result' = [status |-> r.status, global_map |-> r.global_map]
    /\ since_reset' = Remember(since_reset, config, c)
    /\ ncalls' = ncalls + 1
    /\ UNCHANGED <<config, _instances, constructor_calls>>

\* one call self.net(...) with arguments c
NetCall(c) ==
    /\ ncalls < MaxCalls
    /\ call' = c
    /\ \E r \in {forward(config, full_global_map, c)} :
           /\ full_global_map' = r.full_global_map
           /\ result' = [status |-> r.status, global_map |-> r.global_map]
    /\ since_reset' = Remember(since_reset, config, c)
    /\ ncalls' = ncalls + 1
    /\ UNCHANGED <<config, _instances, constructor_calls>>

\* the arguments of a training-mode call: the global_map argument only gives bs
TrainArgs(name, aux, n, m0, m1, o0, o1) ==
    [op |-> name, ev |-> 0, aux_loss |-> aux, bs |-> n,
     masks |-> PerSlot(n, m0, m1), obs |-> PerSlot(n, o0, o1),
     global_map |-> PerSlot(n,
                            Zeros(<<RetrievalSize, RetrievalSize, global_map_depth>>),
                            Zeros(<<RetrievalSize, RetrievalSize, global_map_depth>>))]

EvalArgs(name, aux, n, m0, m1, o0, o1, gm) ==
    [op |-> name, ev |-> 1, aux_loss |-> aux, bs |-> n,
     masks |-> PerSlot(n, m0, m1), obs |-> PerSlot(n, o0, o1),
     global_map |-> PerSlot(n, gm, gm)]

\* PolicyNonOracle.act
Act ==
    \E bs \in ActiveSizes, m0 \in Masks, m1 \in Masks, b \in ObservationBatches :
        /\ bs <= batch_size     \* the buffer has batch_size slots to take the batch
        /\ NetCall(TrainArgs("act", FALSE, bs, m0, m1, b[1], b[2]))

\* (mutant) get_value calls the network with ev = 1
GetValueInEvalMode ==
    \E bs \in ActiveSizes, m0 \in Masks, m1 \in Masks, b \in ObservationBatches :
        /\ bs <= batch_size
        /\ NetCall(EvalArgs("get_value", FALSE, bs, m0, m1, b[1], b[2],
                            Zeros(<<RetrievalSize, RetrievalSize, global_map_depth>>)))

\* PolicyNonOracle.get_value
GetValue ==
    \E bs \in ActiveSizes, m0 \in Masks, m1 \in Masks, b \in ObservationBatches :
        /\ bs <= batch_size
        /\ NetCall(TrainArgs("get_value", FALSE, bs, m0, m1, b[1], b[2]))

\* PolicyNonOracle.evaluate_actions
EvaluateActions ==
    \E m0 \in Masks, m1 \in Masks, b \in ObservationBatches, gm \in StoredMaps :
        \* the stored maps are the windows earlier calls returned
        /\ gm.shape = <<RetrievalSize, RetrievalSize, global_map_depth>>
        /\ NetCall(EvalArgs("evaluate_actions", TRUE, EvalBatch, m0, m1, b[1], b[2], gm))

Next == Act \/ GetValue \/ EvaluateActions

Spec == Init /\ [][Next]_vars

\* the call repeats the batch size, masks and observations of the call before
SameInputs == call'.bs = call.bs /\ call'.masks = call.masks /\ call'.obs = call.obs

\* get_value as the first call made on the instance
GetValueFirst ==
    /\ ncalls = 0
    /\ GetValue

\* get_value with the observations and masks act has just been called with
GetValueAgain ==
    /\ call.op = "act"
    /\ GetValue
    /\ SameInputs

NextValue == Act \/ GetValueFirst \/ GetValueAgain

SpecValue == Init /\ [][NextValue]_vars

\* the classes whose metaclass is Singleton, and what their constructors are
\* called with
Classes == {"A", "B"}

MaxArg == 1

Args == 0 .. MaxArg

MaxConstructorCalls == 4

\* super(Singleton, cls).__call__(*args, **kwargs): a new object of the class,
\* the n-th the program made
NewObject(cls, args, n) == [cls |-> cls, args |-> args, id |-> n]

\* (mutant) the instance is constructed and stored on every call
Singleton__call__Always ==
    \E cls \in Classes, args \in Args, raises \in BOOLEAN :
        /\ Len(constructor_calls) < MaxConstructorCalls
        /\ IF raises
           THEN /\ _instances' = _instances
                /\ constructor_calls' =
                       Append(constructor_calls,
                              [cls |-> cls, args |-> args, status |-> "raised",
                               constructed |-> FALSE,
                               instance |-> NewObject(cls, args, 0)])
           ELSE LET made == NewObject(cls, args, Len(constructor_calls) + 1)
                IN  /\ _instances' = [k \in DOMAIN _instances \cup {cls} |->
                                         IF k = cls THEN made ELSE _instances[k]]
                    /\ constructor_calls' =
                           Append(constructor_calls,
                                  [cls |-> cls, args |-> args, status |-> "returned",
                                   constructed |-> TRUE, instance |-> made])
        /\ UNCHANGED <<full_global_map, config, call, result, ncalls, since_reset>>

\* Singleton.__call__(cls, *args, **kwargs); the constructor of the class may
\* raise, and then nothing is stored
Singleton__call__ ==
    \E cls \in Classes, args \in Args, raises \in BOOLEAN :
        /\ Len(constructor_calls) < MaxConstructorCalls
        /\ IF cls \notin DOMAIN _instances
           THEN IF raises
                THEN /\ _instances' = _instances
                     /\ constructor_calls' =
                            Append(constructor_calls,
                                   [cls |-> cls, args |-> args, status |-> "raised",
                                    constructed |-> FALSE,
                                    instance |-> NewObject(cls, args, 0)])
                ELSE LET made == NewObject(cls, args, Len(constructor_calls) + 1)
                     IN  /\ _instances' = [k \in DOMAIN _instances \cup {cls} |->
                                              IF k = cls THEN made ELSE _instances[k]]
                         /\ constructor_calls' =
                                Append(constructor_calls,
                                       [cls |-> cls, args |-> args, status |-> "returned",
                                        constructed |-> TRUE, instance |-> made])
           ELSE /\ ~raises      \* the constructor is not run
                /\ _instances' = _instances
                /\ constructor_calls' =
                       Append(constructor_calls,
                              [cls |-> cls, args |-> args, status |-> "returned",
                               constructed |-> FALSE, instance |-> _instances[cls]])
        /\ UNCHANGED <<full_global_map, config, call, result, ncalls, since_reset>>

NextSingleton == Singleton__call__

SpecSingleton == Init /\ [][NextSingleton]_vars

\* every configuration, one slot's worth of inputs, each mode with and without
\* the auxiliary losses
InitConfig == Construct(AllConfigs)

\* a direct call of the network: forward(..., ev, aux_loss)
NetForward ==
    \E ev \in {0, 1}, aux \in BOOLEAN, m \in Masks, o \in Observations, gm \in StoredMaps :
        IF ev = 0
        THEN gm = Zeros(<<RetrievalSize, RetrievalSize, global_map_depth>>)
             /\ NetCall(TrainArgs("forward", aux, 1, m, m, o, o))
        ELSE NetCall(EvalArgs("forward", aux, 1, m, m, o, o, gm))

NextConfig == NetForward

SpecConfig == InitConfig /\ [][NextConfig]_vars

\* one step of a freshly built network on one environment, from raw readings
PoseStep ==
    \E x \in GpsReadings, z \in GpsReadings, h \in Headings, p \in Projections,
       m \in Masks :
        /\ ncalls = 0
        /\ NetCall(TrainArgs("act", FALSE, 1, m, m,
                             Observe(<<x, z>>, h, p), Observe(<<x, z>>, h, p)))

NextPose == PoseStep

SpecPose == Init /\ [][NextPose]_vars

\* the sizes a network is built with: small ones of either parity, and sizes
\* next to the side of the retrieval window
MaxSmallSize == 5

MapSizes ==
    (2 .. MaxSmallSize) \cup {RetrievalSize - 10, RetrievalSize - 1, RetrievalSize, RetrievalSize + 1}

PatchSizes == 1 .. MaxSmallSize

SizedConfigs == [global_map_size : MapSizes, egocentric_map_size : PatchSizes]

\* a [depth, e, e] patch whose entries are k, 2k, 3k, ... row by row
PatchOf(e, k) ==
    Tensor(<<global_map_depth, e, e>>,
           [i \in {<<0, r, c>> : r \in 0 .. (e - 1), c \in 0 .. (e - 1)} |->
               k * (i[2] * e + i[3] + 1)])

\* a [depth, G, G] map with marks on its centre cell, next to it and in two
\* corners
MapOf(G, k) ==
    Tensor(<<global_map_depth, G, G>>,
           [i \in {<<0, G \div 2, G \div 2>>, <<0, G \div 2 - 1, G \div 2>>,
                    <<0, 0, 0>>, <<0, G - 1, G - 1>>} |->
               IF i = <<0, G \div 2, G \div 2>> THEN 4 * k
               ELSE IF i = <<0, 0, 0>> THEN 3 * k
               ELSE IF i = <<0, G - 1, G - 1>> THEN 2 * k ELSE k])

\* BaselineNetNonOracle.__init__ with the given sizes
InitSizes ==
    /\ config \in SizedConfigs
    /\ full_global_map =
           [j \in Slots |->
               Zeros(<<config.global_map_size, config.global_map_size, global_map_depth>>)]
    /\ call = NoCall
    /\ result = [status |-> "none", global_map |-> NoMaps]
    /\ ncalls = 0
    /\ since_reset = [j \in Slots |-> NothingFused]
    /\ _instances = NoInstances
    /\ constructor_calls = <<>>

\* the canvas placement of a training-mode step: the assignment of the patch to
\* the slice raises when the slice has not the side of the patch
PlaceCanvas ==
    \E k \in {-1, 1} :
        /\ ncalls = 0
        /\ call' = [op |-> "canvas",
                    projection |-> PatchOf(config.egocentric_map_size, k)]
        /\ result' =
               IF Cardinality(PasteRange(config.global_map_size, config.egocentric_map_size))
                      = config.egocentric_map_size
               THEN [status |-> "returned",
                     agent_view |-> AgentViewOf(config.global_map_size,
                                                config.egocentric_map_size,
                                                PatchOf(config.egocentric_map_size, k))]
               ELSE [status |-> "raised", agent_view |-> Zeros(<<0, 0, 0>>)]
        /\ ncalls' = 1
        /\ UNCHANGED <<full_global_map, config, since_reset, _instances, constructor_calls>>

\* the two poses of a training-mode step at a grid position of the map
NormalisePose ==
    \E gx \in 0 .. (config.global_map_size - 1),
       gy \in {0, config.global_map_size - 1}, h \in {0, 1} :
        /\ ncalls = 0
        /\ call' = [op |-> "pose", grid_x |-> gx, grid_y |-> gy, compass |-> h]
        /\ result' =
               [status |-> "returned",
                st_pose |-> st_poseOf(config.global_map_size, call'),
                st_pose_retrieval |-> st_pose_retrievalOf(config.global_map_size, call')]
        /\ ncalls' = 1
        /\ UNCHANGED <<full_global_map, config, since_reset, _instances, constructor_calls>>

\* the window of a training-mode step: the crop of the translated map, turned
\* by the heading
RetrieveWindow ==
    \E k \in {1, 2}, h \in {0, 1} :
        /\ ncalls = 0
        /\ call' = [op |-> "retrieve", compass |-> h,
                    translated_retrieval |-> MapOf(config.global_map_size, k)]
        /\ result' =
               [status |-> "returned",
                final_retrieval |->
                    RotateTensor(RetrievalCrop(MapOf(config.global_map_size, k),
                                               config.global_map_size), h)]
        /\ ncalls' = 1
        /\ UNCHANGED <<full_global_map, config, since_reset, _instances, constructor_calls>>

NextSizes == PlaceCanvas \/ NormalisePose \/ RetrieveWindow

SpecSizes == InitSizes /\ [][NextSizes]_vars

\* ------------------------------------------------------------------------
\* Properties
\* ------------------------------------------------------------------------

\* the latest call took the training-mode branch and reached the fusion
Trained == call.op # "none" /\ call.ev = 0 /\ ~config.is_blind

\* the same of the call a step makes
TrainedNext == call'.ev = 0 /\ ~config.is_blind

\* every entry of b is at least the entry of a
NotBelow(a, b) == \A i \in DOMAIN a.at \cup DOMAIN b.at : Get(b, i) >= Get(a, i)

\* what a step makes of one slot, given that slot's own content, mask and
\* observation only
OwnStep(old, mask, o) == TorchMax(MulScalar(old, mask), Contribution(o))

\* C1 (as stated): a training-mode step gives every active slot j a content
\* that depends on slot j's own content, mask, pose and patch only, and every
\* slot j >= bs keeps exactly the content it had.
C1_SlotsKeptOutsideBatch ==
    [][TrainedNext =>
          \A j \in Slots :
              IF j < call'.bs
              THEN full_global_map'[j] =
                       OwnStep(full_global_map[j], call'.masks[j], call'.obs[j])
              ELSE full_global_map'[j] = full_global_map[j]]_vars

\* C1 (amended): a training-mode step gives every active slot j a content that
\* depends on slot j's own content, mask, pose and patch only; a slot j >= bs
\* either keeps exactly the content it had or is zeroed with the inactive
\* tail, whatever the inputs of the active slots.
C1_BatchIsolation ==
    [][TrainedNext =>
          \A j \in Slots :
              IF j < call'.bs
              THEN full_global_map'[j] =
                       OwnStep(full_global_map[j], call'.masks[j], call'.obs[j])
              ELSE full_global_map'[j] \in {full_global_map[j], Zeros(MapShape)}]_vars

\* two active slots were handed different masks and different observations,
\* and a slot outside the batch holds content
C1_Witness ==
    /\ Trained
    /\ call.bs = HardcodedBatch
    /\ call.masks[0] # call.masks[1]
    /\ call.obs[0] # call.obs[1]
    /\ full_global_map[0] # full_global_map[1]
    /\ full_global_map[HardcodedBatch] # Zeros(MapShape)

\* C2: after a training-mode step whose active batch size differs from the
\* batch size the buffer was built with, every slot bs .. batch_size - 1 is
\* all zero.
C2_TailZeroing ==
    (Trained /\ call.bs # batch_size) =>
        \A j \in call.bs .. (batch_size - 1) : full_global_map[j] = Zeros(MapShape)

\* C3: after a training-mode step with mask[j] = 0, slot j holds exactly the
\* element-wise maximum of zero and that step's warped canvas.
C3_ResetCorrectness ==
    Trained =>
        \A j \in 0 .. (call.bs - 1) :
            call.masks[j] = 0 =>
                /\ full_global_map[j].shape = MapShape
                /\ \A i \in DOMAIN full_global_map[j].at \cup DOMAIN Contribution(call.obs[j]).at :
                       Get(full_global_map[j], i) = Max2(0, Get(Contribution(call.obs[j]), i))

\* the second step resets slot 0 while slot 1, stepped along with it both
\* times, still holds more than this step's canvas
C3_Witness ==
    /\ Trained
    /\ ncalls = 2
    /\ call.bs >= 2
    /\ call.masks[0] = 0
    /\ call.masks[1] = 1
    /\ since_reset[1].n = 2
    /\ since_reset[1].max # Contribution(call.obs[1])
    /\ full_global_map[0] # Zeros(MapShape)

\* C4 (as stated): unless the call carries mask[j] = 0 for slot j, no cell of
\* slot j decreases across a forward call.
C4_NeverDecreasesWithoutReset ==
    [][\A j \in Slots :
          ~(TrainedNext /\ j < call'.bs /\ call'.masks[j] = 0) =>
              NotBelow(full_global_map[j], full_global_map'[j])]_vars

\* C4 (amended): no cell of slot j decreases across a forward call in which
\* slot j is active with mask[j] = 1, nor across an evaluation-mode call; a
\* training-mode call that leaves slot j outside its batch may zero it.
C4_Monotonicity ==
    [][\A j \in Slots :
          (~TrainedNext \/ (j < call'.bs /\ call'.masks[j] = 1)) =>
              NotBelow(full_global_map[j], full_global_map'[j])]_vars

\* slot 0 was stepped twice without a reset and holds more than the second
\* step's canvas alone
C4_Witness ==
    /\ Trained
    /\ call.masks[0] = 1
    /\ since_reset[0].n = 2
    /\ full_global_map[0] # TorchMax(Zeros(MapShape), Contribution(call.obs[0]))

\* C5 (as stated): after N >= 1 fusion steps without a reset, a slot holds the
\* element-wise maximum of the N warped canvases.
C5_MaxOfContributions ==
    \A j \in Slots : since_reset[j].n >= 1 => full_global_map[j] = since_reset[j].max

\* C5 (amended): after N >= 1 fusion steps without a reset, a slot holds the
\* element-wise maximum of zero and the N warped canvases.
C5_MaxOfZeroAndContributions ==
    \A j \in Slots :
        since_reset[j].n >= 1 =>
            full_global_map[j] = TorchMax(Zeros(MapShape), since_reset[j].max)

\* two different canvases were fused into slot 0, and some cell got only
\* values below zero
C5_Witness ==
    /\ since_reset[0].n = 2
    /\ since_reset[0].max # Contribution(call.obs[0])
    /\ \E i \in DOMAIN since_reset[0].max.at : since_reset[0].max.at[i] < 0
    /\ full_global_map[0] # Zeros(MapShape)

\* C6: no call of forward raises, whatever the configuration and the mode.
C6_NoError == result.status # "raised"

\* C7: the buffer keeps its batch_size slots and every slot its shape
\* [global_map_size, global_map_size, global_map_depth].
C7_BufferShape ==
    /\ DOMAIN full_global_map = Slots
    /\ \A j \in Slots :
           /\ full_global_map[j].shape = MapShape
           /\ \A i \in DOMAIN full_global_map[j].at : InShape(MapShape, i)

\* after two calls, the last a training-mode step on fewer slots than the
\* buffer has, with a reset, that pushed part of a patch off the grid
C7_Witness ==
    /\ Trained
    /\ ncalls = 2
    /\ call.bs < batch_size
    /\ call.masks[0] = 0
    /\ call.obs[0] = ObsC
    /\ full_global_map[0] # Zeros(MapShape)

\* C8: a call with ev # 0 leaves the buffer as it was and returns, for every
\* slot, the element-wise maximum of the masked global_map argument and the
\* centre-pasted patch, as a [51, 51, depth] map.
C8_EvalBranch ==
    (call.op # "none" /\ call.ev # 0 /\ result.status = "returned") =>
        \A j \in 0 .. (call.bs - 1) :
            /\ result.global_map[j].shape = <<RetrievalSize, RetrievalSize, global_map_depth>>
            /\ \A r \in 0 .. (RetrievalSize - 1), c \in 0 .. (RetrievalSize - 1),
                  d \in 0 .. (global_map_depth - 1) :
                   Get(result.global_map[j], <<r, c, d>>) =
                       Max2(Get(call.global_map[j], <<r, c, d>>) * call.masks[j],
                            Get(call.obs[j].projection,
                                <<d, r - PasteLo(RetrievalSize), c - PasteLo(RetrievalSize)>>))

\* C9: the window a training-mode step returns for slot j is read from slot j
\* as the step leaves it, which already holds the step's canvas.
C9_RetrievalAfterFusion ==
    (Trained /\ result.status = "returned") =>
        \A j \in 0 .. (call.bs - 1) :
            /\ result.global_map[j] =
                   Permute(FinalRetrieval(full_global_map[j], call.obs[j]), <<2, 3, 1>>)
            /\ NotBelow(Contribution(call.obs[j]), full_global_map[j])

\* the step fused a canvas with a positive entry and returned a window
C9_Witness ==
    /\ Trained
    /\ result.status = "returned"
    /\ call.masks[0] = 0
    /\ \E i \in DOMAIN Contribution(call.obs[0]).at : Contribution(call.obs[0]).at[i] > 0
    /\ result.global_map[0] # Zeros(<<RetrievalSize, RetrievalSize, global_map_depth>>)

\* C10: a training-mode step that repeats, for slot j, the observation of the
\* training-mode step before it, with mask[j] = 1, leaves slot j and the
\* window returned for it as that step left them.
C10_Idempotence ==
    [][(Trained /\ TrainedNext /\ result.status = "returned") =>
          \A j \in 0 .. (call.bs - 1) :
              (j < call'.bs /\ call'.obs[j] = call.obs[j] /\ call'.masks[j] = 1) =>
                  /\ full_global_map'[j] = full_global_map[j]
                  /\ result'.global_map[j] = result.global_map[j]]_vars

\* slot 0 was stepped twice since its reset, and both canvases were the same
C10_Witness ==
    /\ Trained
    /\ call.masks[0] = 1
    /\ since_reset[0].n = 2
    /\ since_reset[0].max = Contribution(call.obs[0])
    /\ full_global_map[0] # Zeros(MapShape)

\* the patch of observation o, moved to o's grid position, lies inside the grid
PatchInside(o) ==
    \A g \in {o.grid_x, o.grid_y} :
        /\ g \in 0 .. (global_map_size - 1)
        /\ PasteLo(global_map_size) + (g - global_map_size \div 2) >= 0
        /\ PasteLo(global_map_size) + (egocentric_map_size - 1) + (g - global_map_size \div 2)
               <= global_map_size - 1

\* the entry of patch at the place of window cell <<r, c, d>>, the patch lying
\* on the central egocentric_map_size x egocentric_map_size cells of the window
CentralPatch(patch, r, c, d) ==
    Get(patch, <<d, r - (RetrievalSize \div 2 - FloorHalf(egocentric_map_size)),
                    c - (RetrievalSize \div 2 - FloorHalf(egocentric_map_size))>>)

WindowCells ==
    {<<r, c, d>> : r \in 0 .. (RetrievalSize - 1), c \in 0 .. (RetrievalSize - 1),
                   d \in 0 .. (global_map_depth - 1)}

\* the latest call stepped slot 0 from empty, with heading 0, at a position
\* that keeps the patch inside the grid
PlacedAndRetrieved ==
    /\ Trained
    /\ result.status = "returned"
    /\ call.obs[0].compass = 0
    /\ PatchInside(call.obs[0])

\* C11 (as stated): from an empty slot, placing a patch at (x, y) with heading 0
\* and retrieving in the same step returns a window whose central region
\* equals the patch and that is zero elsewhere.
C11_RoundTrip ==
    PlacedAndRetrieved =>
        /\ result.global_map[0].shape = <<RetrievalSize, RetrievalSize, global_map_depth>>
        /\ \A i \in WindowCells :
               Get(result.global_map[0], i) = CentralPatch(call.obs[0].projection, i[1], i[2], i[3])

\* C11 (amended): from an empty slot, placing a patch at (x, y) with heading 0
\* and retrieving in the same step returns a window whose central region
\* equals the element-wise maximum of zero and the patch and that is zero
\* elsewhere.
C11_RoundTripAboveZero ==
    PlacedAndRetrieved =>
        /\ result.global_map[0].shape = <<RetrievalSize, RetrievalSize, global_map_depth>>
        /\ \A i \in WindowCells :
               Get(result.global_map[0], i) =
                   Max2(0, CentralPatch(call.obs[0].projection, i[1], i[2], i[3]))

\* a patch with an entry below zero was placed away from the centre of the
\* grid, next to its edge, and came back in the window
C11_Witness ==
    /\ PlacedAndRetrieved
    /\ call.obs[0].grid_x = 1
    /\ call.obs[0].grid_y = global_map_size - 2
    /\ \E i \in DOMAIN call.obs[0].projection.at : call.obs[0].projection.at[i] < 0
    /\ result.global_map[0] # Zeros(<<RetrievalSize, RetrievalSize, global_map_depth>>)

\* observation o with its heading k full turns further
Turned(o, k) == [o EXCEPT !.compass = @ + 4 * k]

WorldRange == (coordinate_min * Resolution) .. (coordinate_max * Resolution - 1)

\* the width of the bound range, and the first world position of cell g when
\* the range is cut into global_map_size equal parts
WorldWidth == (coordinate_max - coordinate_min) * Resolution

CellStart(g) ==
    coordinate_min * Resolution + (g * WorldWidth + global_map_size - 1) \div global_map_size

\* C13: the mapper sends the bound range linearly onto the cells
\* 0 .. global_map_size - 1: every position within the bounds gets a cell of
\* the grid, cell g is the image of exactly the positions from CellStart(g) up
\* to CellStart(g + 1), these ranges follow one another from coordinate_min to
\* coordinate_max, and with 51 cells over [-20, 20] the world position (0, 0)
\* gets the cell (25, 25).
C13_CoordinateMapping ==
    /\ \A p \in WorldRange :
           LET cell == get_grid_coords(<<p, p>>)
           IN  /\ cell.grid_x \in 0 .. (global_map_size - 1)
               /\ cell.grid_y = cell.grid_x
               /\ CellStart(cell.grid_x) <= p
               /\ p < CellStart(cell.grid_x + 1)
    /\ CellStart(0) = coordinate_min * Resolution
    /\ CellStart(global_map_size) = coordinate_max * Resolution
    /\ \A g \in 0 .. (global_map_size - 1) :
           /\ CellStart(g) < CellStart(g + 1)
           /\ get_grid_coords(<<CellStart(g), CellStart(g + 1) - 1>>) =
                  [grid_x |-> g, grid_y |-> g]
    /\ Trained =>
           LET o == call.obs[0]
           IN  /\ o.grid_x = get_grid_coords(o.gps).grid_x
               /\ o.grid_y = get_grid_coords(o.gps).grid_y
               /\ (global_map_size = 51 /\ coordinate_min = -20 /\ coordinate_max = 20
                      /\ o.gps = <<0, 0>>) =>
                      (o.grid_x = 25 /\ o.grid_y = 25)

\* a step was made at world position (0, 0)
C13_Witness ==
    /\ Trained
    /\ call.obs[0].gps = <<0, 0>>
    /\ call.obs[0].grid_x = global_map_size \div 2
    /\ call.obs[0].grid_y = global_map_size \div 2
    /\ full_global_map[0] # Zeros(MapShape)

\* world position p of one axis lies outside [coordinate_min, coordinate_max]
OutOfBounds(p) == p < coordinate_min * Resolution \/ p > coordinate_max * Resolution

\* the canvas of observation o turned by o's heading and moved by o's grid
\* offsets as they are, whatever their size, laid out as the buffer
PlacedUnclamped(o) ==
    Permute(grid_sample(grid_sample(AgentView(global_map_size, o.projection),
                                    [q |-> o.compass % 4, dx |-> 0, dy |-> 0]),
                        [q |-> 0,
                         dx |-> PixelShift(-(o.grid_y - global_map_size \div 2), global_map_size),
                         dy |-> PixelShift(-(o.grid_x - global_map_size \div 2), global_map_size)]),
            <<2, 3, 1>>)

\* C14: a world position outside the bounds gets a grid index outside
\* 0 .. global_map_size - 1, the position coordinate_max gets an index at or
\* beyond the last cell, and a step handed such a position completes with the
\* index passed on as it is: the pose offsets are the unclamped differences to
\* the centre cell, beyond [-1, 1] once normalised, and the buffer takes the
\* canvas moved by them.
C14_NoClamping ==
    Trained =>
        LET o == call.obs[0]
        IN  /\ OutOfBounds(o.gps[1]) =>
                   /\ o.grid_x \notin 0 .. (global_map_size - 1)
                   /\ st_pose(o)[2] \notin -(global_map_size \div 2) .. (global_map_size \div 2)
            /\ OutOfBounds(o.gps[2]) =>
                   /\ o.grid_y \notin 0 .. (global_map_size - 1)
                   /\ st_pose(o)[1] \notin -(global_map_size \div 2) .. (global_map_size \div 2)
            /\ o.gps[1] = coordinate_max * Resolution => o.grid_x >= global_map_size - 1
            /\ o.gps[2] = coordinate_max * Resolution => o.grid_y >= global_map_size - 1
            /\ st_pose(o) = <<-(o.grid_y - global_map_size \div 2),
                              -(o.grid_x - global_map_size \div 2), o.compass>>
            /\ result.status = "returned"
            /\ full_global_map[0] = TorchMax(Zeros(MapShape), PlacedUnclamped(o))

\* a step at world position x = coordinate_max: the index is beyond the last
\* cell and only a part of the patch stays on the grid
C14_Witness ==
    /\ Trained
    /\ result.status = "returned"
    /\ call.obs[0].gps[1] = coordinate_max * Resolution
    /\ call.obs[0].grid_x >= global_map_size
    /\ call.obs[0].grid_y \in 0 .. (global_map_size - 1)
    /\ full_global_map[0] # Zeros(MapShape)
    /\ Cardinality(DOMAIN full_global_map[0].at) < Cardinality(DOMAIN call.obs[0].projection.at)

\* C15: whatever global_map_size the network is built with, the window of a
\* training-mode step has 51 x 51 cells and is the crop of the translated map
\* centred on cell global_map_size // 2: before the window is turned, its cell
\* (r, c) is cell (G // 2 - 25 + r, G // 2 - 25 + c) of the translated map.
C15_FixedWindow ==
    (call.op = "retrieve") =>
        LET G == config.global_map_size
            lo == G \div 2 - FloorHalf(RetrievalSize)
        IN  /\ result.final_retrieval.shape = <<global_map_depth, RetrievalSize, RetrievalSize>>
            /\ (call.compass = 0) =>
                   \A r \in 0 .. (RetrievalSize - 1), c \in 0 .. (RetrievalSize - 1) :
                       Get(result.final_retrieval, <<0, r, c>>) =
                           Get(call.translated_retrieval, <<0, lo + r, lo + c>>)

\* C16: for every egocentric_map_size E <= global_map_size G the paste range
\* G // 2 - floor(E / 2) .. G // 2 + ceil(E / 2) - 1 has E cells, lies inside
\* 0 .. G - 1 and holds cell G // 2 with floor(E / 2) cells before it; the
\* canvas is the patch, unturned and unmoved, on that range and zero elsewhere.
C16_CanvasPlacement ==
    LET G == config.global_map_size
        E == config.egocentric_map_size
        lo == G \div 2 - FloorHalf(E)
        hi == G \div 2 + CeilHalf(E)
    IN  (E <= G) =>
            /\ PasteRange(G, E) = lo .. (hi - 1)
            /\ Cardinality(PasteRange(G, E)) = E
            /\ PasteRange(G, E) \subseteq 0 .. (G - 1)
            /\ (G \div 2) \in PasteRange(G, E)
            /\ (call.op = "canvas") =>
                   /\ result.status = "returned"
                   /\ result.agent_view.shape = <<global_map_depth, G, G>>
                   /\ \A r \in 0 .. (G - 1), c \in 0 .. (G - 1) :
                          Get(result.agent_view, <<0, r, c>>) =
                              IF r \in lo .. (hi - 1) /\ c \in lo .. (hi - 1)
                              THEN Get(call.projection, <<0, r - lo, c - lo>>)
                              ELSE 0

\* an odd patch was placed on a larger even canvas
C16_Witness ==
    /\ call.op = "canvas"
    /\ config.global_map_size = 4
    /\ config.egocentric_map_size = 3
    /\ result.status = "returned"
    /\ Get(result.agent_view, <<0, 1, 1>>) = -1
    /\ Get(result.agent_view, <<0, 3, 3>>) = -9
    /\ Get(result.agent_view, <<0, 0, 0>>) = 0

\* C17: for every global_map_size G >= 2 and grid coordinate g in 0 .. G - 1
\* the placement offset -(g - G // 2) is at most G // 2 in size, so that its
\* quotient by G // 2 lies in [-1, 1]; the retrieval pose is the placement
\* pose with both offsets negated and heading zero.
C17_PoseNormalisation ==
    (call.op = "pose") =>
        LET half == config.global_map_size \div 2
        IN  /\ result.st_pose =
                   <<-(call.grid_y - half), -(call.grid_x - half), call.compass>>
            /\ \A k \in 1 .. 2 : -half <= result.st_pose[k] /\ result.st_pose[k] <= half
            /\ result.st_pose_retrieval = <<-result.st_pose[1], -result.st_pose[2], 0>>

\* an even map, the first column and the last row, a heading that is not zero
C17_Witness ==
    /\ call.op = "pose"
    /\ config.global_map_size = 4
    /\ call.grid_x = 0
    /\ call.grid_y = 3
    /\ call.compass = 1
    /\ result.st_pose = <<-1, 2, 1>>
    /\ result.st_pose_retrieval = <<1, -2, 0>>

\* the step of a second instance that was built with the same configuration,
\* made no call yet and holds the given buffer content
FreshInstanceStep(buffer, c) == forward(config, buffer, c)

C19_GetValueAfterAct ==
    [][(call'.op = "get_value" /\ ncalls' = ncalls + 1) =>
          /\ call'.ev = 0
          /\ \A j \in 0 .. (call'.bs - 1) :
                 full_global_map'[j] =
                     OwnStep(full_global_map[j], call'.masks[j], call'.obs[j])
          /\ (call.op = "act" /\ SameInputs) => full_global_map' = full_global_map]_vars

\* get_value came second, after act: a slot it reset and a slot it kept both
\* hold something
C19_Witness ==
    /\ call.op = "get_value"
    /\ ncalls = 2
    /\ call.bs = batch_size
    /\ call.masks[0] = 0
    /\ call.masks[1] = 1
    /\ since_reset[1].n = 2
    /\ full_global_map[0] # Zeros(MapShape)
    /\ full_global_map[1] # Zeros(MapShape)

\* the patch of observation o pasted on the centre of the evaluation canvas,
\* laid out as the global_map argument
PastedPatch(o) == Permute(AgentView(RetrievalSize, o.projection), <<2, 3, 1>>)

\* C20: a call with ev # 0 returns, for every slot whose mask is 0, the
\* element-wise maximum of zero and the centre-pasted patch, and for every
\* slot whose mask is 1 the element-wise maximum of the global_map argument
\* and the pasted patch; the global_map argument stays as it was passed.
C20_EvalMasking ==
    [][(call'.ev # 0 /\ ncalls' = ncalls + 1 /\ result'.status = "returned") =>
          \A j \in 0 .. (call'.bs - 1) :
              /\ call'.masks[j] = 0 =>
                     result'.global_map[j] =
                         TorchMax(Zeros(<<RetrievalSize, RetrievalSize, global_map_depth>>),
                                  PastedPatch(call'.obs[j]))
              /\ call'.masks[j] = 1 =>
                     result'.global_map[j] =
                         TorchMax(call'.global_map[j], PastedPatch(call'.obs[j]))]_vars

\* the positions in constructor_calls of the calls on class cls, and of those
\* that returned
CallsOn(cls) == {i \in DOMAIN constructor_calls : constructor_calls[i].cls = cls}

ReturnedOn(cls) == {i \in CallsOn(cls) : constructor_calls[i].status = "returned"}

\* the least position of a non-empty set of positions
FirstOf(positions) == CHOOSE i \in positions : \A k \in positions : i <= k

\* the instances of class cls that calls have returned
InstancesOf(cls) == {constructor_calls[i].instance : i \in ReturnedOn(cls)}

\* C21 (as stated): at most one instance exists per class; the first call on a
\* class constructs it with that call's arguments, every later call on the
\* class returns that instance without constructing, and instances of
\* different classes are distinct.
C21_Singleton ==
    \A cls \in Classes :
        /\ Cardinality(InstancesOf(cls)) <= 1
        /\ \A i \in CallsOn(cls) :
               LET first == constructor_calls[FirstOf(CallsOn(cls))]
                   this == constructor_calls[i]
               IN  /\ this.status = "returned"
                   /\ this.instance = first.instance
                   /\ this.instance.args = first.args
                   /\ this.constructed = (i = FirstOf(CallsOn(cls)))
        /\ \A other \in Classes \ {cls} : InstancesOf(cls) \cap InstancesOf(other) = {}

\* C21: at most one instance exists per class; a call whose constructor raises
\* stores nothing, and only calls before any has returned construct; the
\* first call on a class that returns constructs the instance with that
\* call's arguments, every later call on the class returns that instance
\* without constructing, and instances of different classes are distinct.
C21_SingletonOnceConstructed ==
    \A cls \in Classes :
        /\ Cardinality(InstancesOf(cls)) <= 1
        /\ (cls \in DOMAIN _instances) = (ReturnedOn(cls) # {})
        /\ \A i \in CallsOn(cls) :
               LET this == constructor_calls[i]
               IN  IF this.status = "raised"
                   THEN \A k \in ReturnedOn(cls) : i < k
                   ELSE LET first == constructor_calls[FirstOf(ReturnedOn(cls))]
                        IN  /\ this.instance = first.instance
                            /\ this.instance = _instances[cls]
                            /\ this.instance.cls = cls
                            /\ this.instance.args = first.args
                            /\ this.constructed = (i = FirstOf(ReturnedOn(cls)))
        /\ \A other \in Classes \ {cls} : InstancesOf(cls) \cap InstancesOf(other) = {}

\* the first call on a class raised, the second constructed the instance, the
\* third was given other arguments and got that instance; then the other
\* class was constructed
C21_Witness ==
    /\ Len(constructor_calls) = 4
    /\ \A i \in 1 .. 3 : constructor_calls[i].cls = "A"
    /\ constructor_calls[1].status = "raised"
    /\ constructor_calls[2].args = 1
    /\ constructor_calls[2].constructed
    /\ constructor_calls[3].args = 0
    /\ ~constructor_calls[3].constructed
    /\ constructor_calls[3].instance = constructor_calls[2].instance
    /\ constructor_calls[4].cls = "B"
    /\ constructor_calls[4].constructed
    /\ _instances["A"].args = 1
    /\ _instances["A"] # _instances["B"]

====
